---- MODULE Spec2Model ----
(***************************************************************************)
(* A model of kroger.py: the KrogerAPI client (credential check, cached    *)
(* OAuth2 token, store lookup, product search) and the two MCP tools that  *)
(* wrap it.  Every step of a method that touches the client object, the    *)
(* clock or the network is one action, so that threads sharing one client  *)
(* interleave exactly where the Python code can be preempted.              *)
(***************************************************************************)
EXTENDS Integers, Sequences, FiniteSets, TLC

\* ---------------------------------------------------------------- bounds
NThreads == 2
MaxTime == 3
MaxExpiresIn == 2
MaxLen == 2
MaxLimit == 1

\* ------------------------------------------------------- values and types
\* Python's None, for string-valued attributes.
NoneS == "None"
\* Python's None, for number-valued attributes: Nothing, or Some(n).
Nothing == << >>
Some(x) == << x >>

Threads == 1 .. NThreads
\* At most one KrogerAPI object is referenced by each running call.
Objs == 1 .. NThreads
\* The thread of the single-threaded specification, and the object that
\* callers of the library share.
MainThread == 1
Shared == 1

\* time.time(), in whole seconds since the epoch (always positive).
Clock == 1 .. MaxTime
\* What the retailer's endpoints may answer.
Tokens == {"T1", "T2"}
\* expires_in: negative, zero or positive.
ExpiresIn == {0 - MaxExpiresIn, 0, MaxExpiresIn}
StatusCodes == {200, 401, 500}
Items == {"a", "b"}
DataArrays == UNION {[1 .. k -> Items] : k \in 0 .. MaxLen}
\* A resource response's JSON body: the "data" key may be missing.
Bodies == {[has_data |-> TRUE, data |-> d] : d \in DataArrays}
            \cup {[has_data |-> FALSE, data |-> << >>]}
TokenBodies == [access_token : Tokens, expires_in : ExpiresIn]
EnvValues == {NoneS, "", "set"}
Limits == 0 .. MaxLimit
\* A call: the method and its limit argument (search_products alone has one).
ToolCalls == {<< "get_nearest_store_information", 0 >>}
                \cup {<< "search_products", l >> : l \in Limits}
Calls == {<< "get_access_token", 0 >>} \cup ToolCalls

VARIABLES
    environ,    \* os.environ: KROGER_CLIENT_ID, KROGER_CLIENT_SECRET
    server,     \* the process: "imported", "starting" or "running"
    now,        \* time.time()
    heap,       \* the KrogerAPI objects
    pc,         \* per thread: the source line it is about to execute
    frame,      \* per thread: the local variables of the running call
    net,        \* per thread: the HTTP requests of the running call, in order
    result,     \* per thread: what the running call returned or raised
    writes      \* per object (history): what lines 68 and 69 last assigned

vars == << environ, server, now, heap, pc, frame, net, result, writes >>

\* ------------------------------------------------------ Python semantics
\* bool(s) for an Optional[str].
TruthyStr(s) == s /= NoneS /\ s /= ""
\* bool(x) for an Optional[float].
TruthyNum(x) == x /= Nothing /\ x[1] /= 0
\* bool(data.get("data")).
TruthyData(body) == body.has_data /\ Len(body.data) > 0
\* httpx.Response.is_success, which raise_for_status() tests.
IsSuccess(status) == status >= 200 /\ status <= 299

\* --------------------------------------------------------------- records
DeadObject ==
    [live |-> FALSE, client_id |-> NoneS, client_secret |-> NoneS,
     access_token |-> NoneS, token_expires_at |-> Nothing]

NoTokenData == [access_token |-> NoneS, expires_in |-> 0]

NoFrame ==
    [op |-> "none", tool |-> FALSE, self |-> 0, limit |-> 0,
     token_data |-> NoTokenData,
     token |-> NoneS, data |-> [has_data |-> FALSE, data |-> << >>]]

NoResult == [kind |-> "none", type |-> "none", val |-> << >>, exc |-> "none", at |-> "none"]
Returned(type, val) ==
    [kind |-> "ok", type |-> type, val |-> val, exc |-> "none", at |-> "none"]
Raised(exc, at) ==
    [kind |-> "err", type |-> "none", val |-> << >>, exc |-> exc, at |-> at]

\* tok68: the token line 68 last assigned; exp69: the expiry line 69 last
\* assigned; tok69: the token fetched by the refresh that ran line 69 last.
NoWrites == [tok68 |-> NoneS, exp69 |-> Nothing, tok69 |-> NoneS]

Request(method, url, bearer) ==
    [method |-> method, url |-> url, bearer |-> bearer, status |-> 0]

Url(op) == IF op = "get_nearest_store_information" THEN "/locations" ELSE "/products"
GetLine(op) == IF op = "get_nearest_store_information" THEN "L93" ELSE "L138"

\* The response to the request in flight is its last entry's status.
Answered(log, status) == [log EXCEPT ![Len(log)].status = status]

\* --------------------------------------------------- KrogerAPI.__init__
\* Lines 40-45: the attributes of a new object.
NewObject ==
    [live |-> TRUE,
     client_id |-> environ.KROGER_CLIENT_ID,
     client_secret |-> environ.KROGER_CLIENT_SECRET,
     access_token |-> NoneS, token_expires_at |-> Nothing]

\* Line 47: the constructor raises ValueError when this is false.
CredentialsFound ==
    TruthyStr(environ.KROGER_CLIENT_ID) /\ TruthyStr(environ.KROGER_CLIENT_SECRET)

\* -------------------------------------------------------------- str()
\* The tools return str(value).
Str(r) == [r EXCEPT !.type = "str"]
Deliver(t, r) == IF frame[t].tool THEN Str(r) ELSE r

\* ------------------------------------------------------------ actions

\* The clock moves (time.time() is the wall clock: it may be set back).
Tick ==
    /\ \E t \in Clock \ {now} : now' = t
    /\ UNCHANGED << environ, server, heap, pc, frame, net, result, writes >>

\* A caller invokes a method of the shared client.  Each of the three
\* methods starts by running get_access_token (lines 52, 79, 118).
Call(t, m, lim) ==
    /\ pc[t] = "idle"
    /\ heap[Shared].live
    /\ frame' = [frame EXCEPT ![t] = [NoFrame EXCEPT !.op = m, !.self = Shared, !.limit = lim]]
    /\ pc' = [pc EXCEPT ![t] = "L52"]
    /\ UNCHANGED << environ, server, now, heap, net, result, writes >>

\* ValidCached with >= for >: a token expiring now would count as valid.
ValidCached_AtExpiry(o) ==
    /\ TruthyStr(heap[o].access_token)
    /\ TruthyNum(heap[o].token_expires_at)
    /\ heap[o].token_expires_at[1] >= now

\* Line 52: is the cached token usable?  If not, lines 56-64 send the POST.
\* The reads of line 52 are one step: access_token, once set, is never
\* unset, so the line takes the branch it would take were it evaluated at
\* the moment of its last read.
ValidCached(o) ==
    /\ TruthyStr(heap[o].access_token)
    /\ TruthyNum(heap[o].token_expires_at)
    /\ heap[o].token_expires_at[1] > now

Check52(t) ==
    /\ pc[t] = "L52"
    /\ LET o == frame[t].self IN
        /\ IF ValidCached(o)
           THEN /\ pc' = [pc EXCEPT ![t] = "L53"]
                /\ UNCHANGED net
           ELSE /\ pc' = [pc EXCEPT ![t] = "L64"]
                /\ net' = [net EXCEPT ![t] =
                             Append(@, Request("POST", "/connect/oauth2/token", NoneS))]
    /\ UNCHANGED << environ, server, now, heap, frame, result, writes >>

\* ReturnToken with the headers built from the caller's token variable
\* before the returned token is assigned to it.
ReturnToken_StaleBearer(t, tok) ==
    /\ IF frame[t].op = "get_access_token"
       THEN /\ result' = [result EXCEPT ![t] = Returned("str", << tok >>)]
            /\ pc' = [pc EXCEPT ![t] = "done"]
            /\ frame' = [frame EXCEPT ![t].token_data = NoTokenData]
            /\ UNCHANGED net
       ELSE /\ frame' = [frame EXCEPT ![t].token = tok, ![t].token_data = NoTokenData]
            /\ net' = [net EXCEPT ![t] =
                         Append(@, Request("GET", Url(frame[t].op), frame[t].token))]
            /\ pc' = [pc EXCEPT ![t] = GetLine(frame[t].op)]
            /\ UNCHANGED result

\* get_access_token returns tok and its frame (token_data) is gone.  Called
\* for itself the call is over; called from lines 79 or 118, the caller
\* builds the headers and sends its GET (lines 80-93, 119-138).
ReturnToken(t, tok) ==
    /\ IF frame[t].op = "get_access_token"
       THEN /\ result' = [result EXCEPT ![t] = Returned("str", << tok >>)]
            /\ pc' = [pc EXCEPT ![t] = "done"]
            /\ frame' = [frame EXCEPT ![t].token_data = NoTokenData]
            /\ UNCHANGED net
       ELSE /\ frame' = [frame EXCEPT ![t].token = tok, ![t].token_data = NoTokenData]
            /\ net' = [net EXCEPT ![t] = Append(@, Request("GET", Url(frame[t].op), tok))]
            /\ pc' = [pc EXCEPT ![t] = GetLine(frame[t].op)]
            /\ UNCHANGED result

\* Line 53: return self.access_token.
Return53(t) ==
    /\ pc[t] = "L53"
    /\ ReturnToken(t, heap[frame[t].self].access_token)
    /\ UNCHANGED << environ, server, now, heap, writes >>

\* PostFail with the cache cleared before the status is looked at.
PostFail_ClearsCache(t) ==
    /\ pc[t] = "L64"
    /\ \E s \in StatusCodes :
        /\ ~IsSuccess(s)
        /\ net' = [net EXCEPT ![t] = Answered(@, s)]
    /\ heap' = [heap EXCEPT ![frame[t].self].access_token = NoneS,
                            ![frame[t].self].token_expires_at = Nothing]
    /\ result' = [result EXCEPT ![t] = Raised("HTTPStatusError", "token")]
    /\ pc' = [pc EXCEPT ![t] = "done"]
    /\ UNCHANGED << environ, server, now, frame, writes >>

\* Lines 64-65: the token endpoint answers with a failure status and
\* raise_for_status() raises; nothing up the stack catches it.
PostFail(t) ==
    /\ pc[t] = "L64"
    /\ \E s \in StatusCodes :
        /\ ~IsSuccess(s)
        /\ net' = [net EXCEPT ![t] = Answered(@, s)]
    /\ result' = [result EXCEPT ![t] = Raised("HTTPStatusError", "token")]
    /\ pc' = [pc EXCEPT ![t] = "done"]
    /\ UNCHANGED << environ, server, now, heap, frame, writes >>

\* Lines 64-67: the token endpoint answers 2xx; token_data = response.json().
PostOk(t) ==
    /\ pc[t] = "L64"
    /\ \E s \in StatusCodes, body \in TokenBodies :
        /\ IsSuccess(s)
        /\ net' = [net EXCEPT ![t] = Answered(@, s)]
        /\ frame' = [frame EXCEPT ![t].token_data = body]
    /\ pc' = [pc EXCEPT ![t] = "L68"]
    /\ UNCHANGED << environ, server, now, heap, result, writes >>

\* Line 68: self.access_token = token_data["access_token"].
Assign68(t) ==
    /\ pc[t] = "L68"
    /\ LET o == frame[t].self IN
        /\ heap' = [heap EXCEPT ![o].access_token = frame[t].token_data.access_token]
        /\ writes' = [writes EXCEPT ![o].tok68 = frame[t].token_data.access_token]
    /\ pc' = [pc EXCEPT ![t] = "L69"]
    /\ UNCHANGED << environ, server, now, frame, net, result >>

\* Assign69 storing the whole fetched token, not the expiry alone.
Assign69_Pair(t) ==
    /\ pc[t] = "L69"
    /\ LET o == frame[t].self
           e == now + frame[t].token_data.expires_in IN
        /\ heap' = [heap EXCEPT ![o].token_expires_at = Some(e),
                                ![o].access_token = frame[t].token_data.access_token]
        /\ writes' = [writes EXCEPT ![o].exp69 = Some(e),
                                    ![o].tok69 = frame[t].token_data.access_token]
    /\ pc' = [pc EXCEPT ![t] = "L71"]
    /\ UNCHANGED << environ, server, now, frame, net, result >>

\* Line 69: self.token_expires_at = time.time() + token_data["expires_in"].
Assign69(t) ==
    /\ pc[t] = "L69"
    /\ LET o == frame[t].self
           e == now + frame[t].token_data.expires_in IN
        /\ heap' = [heap EXCEPT ![o].token_expires_at = Some(e)]
        /\ writes' = [writes EXCEPT ![o].exp69 = Some(e),
                                    ![o].tok69 = frame[t].token_data.access_token]
    /\ pc' = [pc EXCEPT ![t] = "L71"]
    /\ UNCHANGED << environ, server, now, frame, net, result >>

\* Line 71: return self.access_token.
Return71(t) ==
    /\ pc[t] = "L71"
    /\ ReturnToken(t, heap[frame[t].self].access_token)
    /\ UNCHANGED << environ, server, now, heap, writes >>

\* GetFail with the handler returning an empty list, not re-raising.
GetFail_Swallowed(t) ==
    /\ pc[t] \in {"L93", "L138"}
    /\ \E s \in StatusCodes :
        /\ ~IsSuccess(s)
        /\ net' = [net EXCEPT ![t] = Answered(@, s)]
    /\ result' = [result EXCEPT ![t] = Returned("list", << >>)]
    /\ pc' = [pc EXCEPT ![t] = "done"]
    /\ UNCHANGED << environ, server, now, heap, frame, writes >>

\* Lines 93-94, 108-112 and 138-143, 150-154: the resource endpoint answers
\* with a failure status; the handler logs and re-raises.
GetFail(t) ==
    /\ pc[t] \in {"L93", "L138"}
    /\ \E s \in StatusCodes :
        /\ ~IsSuccess(s)
        /\ net' = [net EXCEPT ![t] = Answered(@, s)]
    /\ result' = [result EXCEPT ![t] = Raised("HTTPStatusError", "resource")]
    /\ pc' = [pc EXCEPT ![t] = "done"]
    /\ UNCHANGED << environ, server, now, heap, frame, writes >>

\* NearestStore taking the last location, not the first.
NearestStore_Last(body) ==
    IF ~TruthyData(body)
    THEN Raised("ValueError", "no locations")
    ELSE Returned("dict", << body.data[Len(body.data)] >>)

\* Lines 99-104: what get_nearest_store_information makes of a 2xx body.
NearestStore(body) ==
    IF ~TruthyData(body)
    THEN Raised("ValueError", "no locations")
    ELSE Returned("dict", << body.data[1] >>)

\* Lines 93-104: the locations endpoint answers 2xx.
LocationsOk(t) ==
    /\ pc[t] = "L93"
    /\ \E s \in StatusCodes, body \in Bodies :
        /\ IsSuccess(s)
        /\ net' = [net EXCEPT ![t] = Answered(@, s)]
        /\ frame' = [frame EXCEPT ![t].data = body]
        /\ result' = [result EXCEPT ![t] = Deliver(t, NearestStore(body))]
    /\ pc' = [pc EXCEPT ![t] = "done"]
    /\ UNCHANGED << environ, server, now, heap, writes >>

\* ProductList cut to the first limit elements.
ProductList_Truncated(body, limit) ==
    Returned("list", IF body.has_data
                     THEN SubSeq(body.data, 1, IF Len(body.data) < limit
                                               THEN Len(body.data) ELSE limit)
                     ELSE << >>)

\* Line 148: data.get("data", []).
ProductList(body, limit) ==
    Returned("list", IF body.has_data THEN body.data ELSE << >>)

\* Lines 138-148: the products endpoint answers 2xx.
ProductsOk(t) ==
    /\ pc[t] = "L138"
    /\ \E s \in StatusCodes, body \in Bodies :
        /\ IsSuccess(s)
        /\ net' = [net EXCEPT ![t] = Answered(@, s)]
        /\ frame' = [frame EXCEPT ![t].data = body]
        /\ result' = [result EXCEPT ![t] = Deliver(t, ProductList(body, frame[t].limit))]
    /\ pc' = [pc EXCEPT ![t] = "done"]
    /\ UNCHANGED << environ, server, now, heap, writes >>

\* The caller takes the result and the call's frame is gone.  A tool's
\* client object was referenced by that frame alone: it is garbage from
\* here on, and its slot is free for the next allocation.
Finish(t) ==
    /\ pc[t] = "done"
    /\ pc' = [pc EXCEPT ![t] = "idle"]
    /\ frame' = [frame EXCEPT ![t] = NoFrame]
    /\ net' = [net EXCEPT ![t] = << >>]
    /\ result' = [result EXCEPT ![t] = NoResult]
    /\ UNCHANGED << environ, server, now, heap, writes >>

\* ------------------------------------------------- the single-threaded client
\* One KrogerAPI object, constructed with both credentials in the
\* environment, used by one caller for any sequence of method calls.
Init ==
    /\ environ = [KROGER_CLIENT_ID |-> "set", KROGER_CLIENT_SECRET |-> "set"]
    /\ server = "imported"
    /\ now \in Clock
    /\ heap = [o \in Objs |-> IF o = Shared THEN NewObject ELSE DeadObject]
    /\ pc = [t \in Threads |-> "idle"]
    /\ frame = [t \in Threads |-> NoFrame]
    /\ net = [t \in Threads |-> << >>]
    /\ result = [t \in Threads |-> NoResult]
    /\ writes = [o \in Objs |-> NoWrites]

Next ==
    \/ Tick
    \/ \E c \in Calls : Call(MainThread, c[1], c[2])
    \/ Check52(MainThread)
    \/ Return53(MainThread)
    \/ PostFail(MainThread)
    \/ PostOk(MainThread)
    \/ Assign68(MainThread)
    \/ Assign69(MainThread)
    \/ Return71(MainThread)
    \/ GetFail(MainThread)
    \/ LocationsOk(MainThread)
    \/ ProductsOk(MainThread)
    \/ Finish(MainThread)

Spec == Init /\ [][Next]_vars

\* ------------------------------------------------ one client, many threads
\* Several threads call get_access_token on the one shared client.  Python
\* may switch threads between any two of the lines above.
InitConc == Init

NextConc ==
    \/ Tick
    \/ \E t \in Threads : Call(t, "get_access_token", 0)
    \/ \E t \in Threads : Check52(t)
    \/ \E t \in Threads : Return53(t)
    \/ \E t \in Threads : PostFail(t)
    \/ \E t \in Threads : PostOk(t)
    \/ \E t \in Threads : Assign68(t)
    \/ \E t \in Threads : Assign69(t)
    \/ \E t \in Threads : Return71(t)
    \/ \E t \in Threads : Finish(t)

SpecConc == InitConc /\ [][NextConc]_vars

\* ------------------------------------------------------- the MCP server
\* Lines 176-179: the process starts the server.  No KrogerAPI object is
\* constructed here (lines 177-178 are comments).
Main ==
    /\ server = "starting"
    /\ server' = "running"
    /\ UNCHANGED << environ, now, heap, pc, frame, net, result, writes >>

\* The lowest slot of the heap that no frame references.
Referenced(o) == \E t \in Threads : frame[t].self = o
FreeObject == CHOOSE o \in Objs : ~Referenced(o) /\ \A p \in Objs : ~Referenced(p) => o <= p

\* ToolCall with one module-level client, made at the first use and kept.
ToolCall_Singleton(t, m, lim) ==
    /\ server = "running"
    /\ pc[t] = "idle"
    /\ \A u \in Threads : pc[u] = "idle"
    /\ IF ~CredentialsFound
       THEN /\ result' = [result EXCEPT ![t] = Raised("ValueError", "__init__")]
            /\ frame' = [frame EXCEPT ![t] =
                           [NoFrame EXCEPT !.op = m, !.tool = TRUE, !.limit = lim]]
            /\ pc' = [pc EXCEPT ![t] = "done"]
            /\ UNCHANGED << heap, writes >>
       ELSE /\ heap' = IF heap[Shared].live THEN heap
                       ELSE [heap EXCEPT ![Shared] = NewObject]
            /\ UNCHANGED writes
            /\ frame' = [frame EXCEPT ![t] =
                           [NoFrame EXCEPT !.op = m, !.tool = TRUE, !.limit = lim,
                                           !.self = Shared]]
            /\ pc' = [pc EXCEPT ![t] = "L52"]
            /\ UNCHANGED result
    /\ UNCHANGED << environ, server, now, net >>

\* Lines 159-174: the host invokes a tool.  The tool coroutines contain no
\* await, so one that has started runs to its end before another starts.
\* Lines 167 and 173: kroger = KrogerAPI().  The constructor raises
\* ValueError (line 48) or the tool goes on to call the method on the new
\* object (lines 168, 174).
ToolCall(t, m, lim) ==
    /\ server = "running"
    /\ pc[t] = "idle"
    /\ \A u \in Threads : pc[u] = "idle"
    /\ IF ~CredentialsFound
       THEN /\ result' = [result EXCEPT ![t] = Raised("ValueError", "__init__")]
            /\ frame' = [frame EXCEPT ![t] =
                           [NoFrame EXCEPT !.op = m, !.tool = TRUE, !.limit = lim]]
            /\ pc' = [pc EXCEPT ![t] = "done"]
            /\ UNCHANGED << heap, writes >>
       ELSE /\ heap' = [heap EXCEPT ![FreeObject] = NewObject]
            /\ writes' = [writes EXCEPT ![FreeObject] = NoWrites]
            /\ frame' = [frame EXCEPT ![t] =
                           [NoFrame EXCEPT !.op = m, !.tool = TRUE, !.limit = lim,
                                           !.self = FreeObject]]
            /\ pc' = [pc EXCEPT ![t] = "L52"]
            /\ UNCHANGED result
    /\ UNCHANGED << environ, server, now, net >>

\* The process starts with whatever the environment holds; the host then
\* invokes the tools.  Line 53 is not among the steps: a tool's client is
\* new, so line 52 never finds a token.
InitTools ==
    /\ environ \in [KROGER_CLIENT_ID : EnvValues, KROGER_CLIENT_SECRET : EnvValues]
    /\ server = "starting"
    /\ now \in Clock
    /\ heap = [o \in Objs |-> DeadObject]
    /\ pc = [t \in Threads |-> "idle"]
    /\ frame = [t \in Threads |-> NoFrame]
    /\ net = [t \in Threads |-> << >>]
    /\ result = [t \in Threads |-> NoResult]
    /\ writes = [o \in Objs |-> NoWrites]

NextTools ==
    \/ Main
    \/ Tick
    \/ \E t \in Threads, c \in ToolCalls : ToolCall(t, c[1], c[2])
    \/ \E t \in Threads : Check52(t)
    \/ \E t \in Threads : PostFail(t)
    \/ \E t \in Threads : PostOk(t)
    \/ \E t \in Threads : Assign68(t)
    \/ \E t \in Threads : Assign69(t)
    \/ \E t \in Threads : Return71(t)
    \/ \E t \in Threads : GetFail(t)
    \/ \E t \in Threads : LocationsOk(t)
    \/ \E t \in Threads : ProductsOk(t)
    \/ \E t \in Threads : Finish(t)

SpecTools == InitTools /\ [][NextTools]_vars

\* ============================================================ properties
\* The vocabulary of the properties below.
Last(log) == log[Len(log)]
Count(log, method) == Cardinality({i \in 1 .. Len(log) : log[i].method = method})
Failed(entry) == entry.status /= 0 /\ ~IsSuccess(entry.status)
\* The step sends a request with this method.
Sends(t, method) ==
    /\ Len(net'[t]) = Len(net[t]) + 1
    /\ Last(net'[t]).method = method
\* Nothing is cached, or what is cached expires now or earlier.
AbsentOrExpired(o) ==
    \/ heap[o].access_token = NoneS
    \/ heap[o].token_expires_at = Nothing
    \/ heap[o].token_expires_at[1] <= now

\* C1: a get_access_token call sends the token POST if and only if no token
\* is cached or the cached expires_at is <= the clock at line 52 (so an
\* expiry equal to now is expired); otherwise it returns the cached
\* access_token unchanged, sending nothing and leaving the cache alone; a
\* call never sends more than one POST.
C1_FetchIffAbsentOrExpired ==
    [][
        LET t == MainThread
            o == Shared IN
        /\ (pc[t] = "L52" /\ pc'[t] /= "L52") =>
              /\ Sends(t, "POST") <=> AbsentOrExpired(o)
              /\ Sends(t, "POST") <=> pc'[t] = "L64"
              /\ ~Sends(t, "POST") <=> pc'[t] = "L53"
        /\ (pc[t] = "L53" /\ pc'[t] /= "L53") =>
              /\ Count(net'[t], "POST") = 0
              /\ heap' = heap
              /\ IF frame[t].op = "get_access_token"
                 THEN result'[t] = Returned("str", << heap[o].access_token >>)
                 ELSE frame'[t].token = heap[o].access_token
        /\ Count(net'[t], "POST") <= 1
    ]_vars

\* A token is cached that expires exactly now, and the call has sent a POST.
C1_Witness ==
    /\ pc[MainThread] = "L64"
    /\ heap[Shared].access_token /= NoneS
    /\ heap[Shared].token_expires_at = Some(now)

\* C2: when the token endpoint answers a non-success status the call ends
\* in the HTTP status error, and the cache is what it was when the call
\* began: no step of the call up to and including the failure changes the
\* client object.
C2_FailedRefreshKeepsCache ==
    [][
        LET t == MainThread IN
        /\ (pc[t] = "L64" /\ pc'[t] /= "L64") =>
              IF ~IsSuccess(Last(net'[t]).status)
              THEN /\ pc'[t] = "done"
                   /\ result'[t] = Raised("HTTPStatusError", "token")
                   /\ heap' = heap
              ELSE /\ pc'[t] = "L68"
                   /\ result'[t] = NoResult
        /\ (pc[t] \in {"idle", "L52"} => heap' = heap)
    ]_vars

\* A refresh has failed while an (expired) token was cached, and it is
\* still cached.
C2_Witness ==
    /\ pc[MainThread] = "done"
    /\ result[MainThread] = Raised("HTTPStatusError", "token")
    /\ heap[Shared].access_token /= NoneS
    /\ heap[Shared].token_expires_at /= Nothing

\* C3: whenever get_access_token returns (line 53 or line 71) the token it
\* returns is cached with an expires_at strictly greater than the clock at
\* that moment.
C3_NeverReturnsExpired ==
    [][
        LET t == MainThread
            o == Shared IN
        (pc[t] \in {"L53", "L71"} /\ pc'[t] \notin {"L53", "L71"}) =>
            /\ heap[o].access_token /= NoneS
            /\ heap[o].token_expires_at /= Nothing
            /\ heap[o].token_expires_at[1] > now
    ]_vars

C5_ProductsVerbatim ==
    LET t == MainThread
        d == frame[t].data IN
    (pc[t] = "done" /\ frame[t].op = "search_products"
       /\ Count(net[t], "GET") = 1 /\ IsSuccess(Last(net[t]).status)) =>
        /\ result[t].kind = "ok"
        /\ d.has_data => result[t] = Returned("list", d.data)

\* The products endpoint sent more elements than limit and the call
\* returned.
C5_Witness ==
    /\ pc[MainThread] = "done"
    /\ frame[MainThread].op = "search_products"
    /\ frame[MainThread].data.has_data
    /\ Len(frame[MainThread].data.data) > frame[MainThread].limit
    /\ result[MainThread].kind = "ok"

\* C6: with a credential absent from the environment the failure comes at
\* startup, so no tool operation is ever accepted.
C6_FailsBeforeAnyToolRuns ==
    ~CredentialsFound => \A t \in Threads : pc[t] = "idle"

\* C7: no call sends the token POST or the resource GET twice; a request
\* answered with a non-success status is the last request of its call, and
\* the call has ended in the HTTP status error; a call whose token exchange
\* failed sent no GET.
C7_NoSwallowNoRetry ==
    LET t == MainThread
        log == net[t] IN
    /\ Count(log, "POST") <= 1
    /\ Count(log, "GET") <= 1
    /\ \A i \in 1 .. Len(log) :
          Failed(log[i]) =>
              /\ i = Len(log)
              /\ pc[t] = "done"
              /\ result[t].kind = "err"
              /\ result[t].exc = "HTTPStatusError"
    /\ (result[t].kind = "err" /\ result[t].at = "token") => Count(log, "GET") = 0

\* search_products fetched a token and its GET was answered with a
\* non-success status.
C7_Witness ==
    /\ pc[MainThread] = "done"
    /\ frame[MainThread].op = "search_products"
    /\ Len(net[MainThread]) = 2
    /\ Failed(net[MainThread][2])
    /\ result[MainThread].kind = "err"

\* C8: a store or product call sends at most two requests; a POST only as
\* the first request and only when line 52 finds no valid token; a GET only
\* as the last request, after every POST before it has succeeded, sent as
\* get_access_token returns and carrying the token it returns; and a call
\* that ended without a token failure has sent exactly one GET.
C8_TokenThenOneGet ==
    [][
        LET t == MainThread
            o == Shared
            log == net'[t] IN
        frame'[t].op \in {"get_nearest_store_information", "search_products"} =>
            /\ Len(log) <= 2
            /\ Count(log, "POST") <= 1
            /\ \A i \in 1 .. Len(log) :
                  /\ log[i].method = "POST" => i = 1
                  /\ log[i].method = "GET" =>
                        /\ i = Len(log)
                        /\ \A j \in 1 .. (i - 1) : IsSuccess(log[j].status)
            /\ Sends(t, "POST") => pc[t] = "L52" /\ AbsentOrExpired(o)
            /\ Sends(t, "GET") =>
                  /\ pc[t] \in {"L53", "L71"}
                  /\ heap[o].access_token /= NoneS
                  /\ Last(log).bearer = heap[o].access_token
            /\ (pc'[t] = "done" /\ result'[t].at /= "token") => Count(log, "GET") = 1
    ]_vars

\* A store call has sent its POST and then its GET, and has returned.
C8_Witness ==
    /\ pc[MainThread] = "done"
    /\ frame[MainThread].op = "get_nearest_store_information"
    /\ Len(net[MainThread]) = 2
    /\ result[MainThread].kind = "ok"

\* No refresh is in flight.
Quiescent == \A t \in Threads : pc[t] \notin {"L64", "L68", "L69", "L71"}

C10_FreshClientPerToolCall ==
    \A t \in Threads :
        (frame[t].tool /\ frame[t].self /= 0) =>
            LET o == frame[t].self IN
            /\ pc[t] = "L52" =>
                  /\ heap[o].access_token = NoneS
                  /\ heap[o].token_expires_at = Nothing
                  /\ net[t] = << >>
            /\ pc[t] /= "L52" =>
                  /\ Count(net[t], "POST") = 1
                  /\ net[t][1].method = "POST"
            /\ Count(net[t], "GET") >= 1 =>
                  /\ IsSuccess(net[t][1].status)
                  /\ Last(net[t]).bearer = writes[o].tok68
            /\ \A u \in Threads \ {t} : frame[u].self /= o

\* A tool invocation has fetched its token and sent its GET.
C10_Witness ==
    \E t \in Threads :
        /\ frame[t].tool
        /\ pc[t] \in {"L93", "L138"}
        /\ Count(net[t], "POST") = 1
        /\ Last(net[t]).method = "GET"

====
